---- MODULE Spec2Model ----
(***************************************************************************)
(* A model of mwhittaker/serial: the classification of transaction         *)
(* schedules (serial.py) over the actions of action.py.  A schedule is a   *)
(* finite sequence of actions; every function of serial.py is an operator  *)
(* computed the way its code computes it (a loop is a recursive operator   *)
(* over the rest of the list and the loop's local state).                  *)
(***************************************************************************)
EXTENDS Integers, Sequences, FiniteSets, TLC

(***************************************************************************)
(* action.py                                                               *)
(***************************************************************************)
READ == 1
WRITE == 2
COMMIT == 3
ABORT == 4

\* The obj of a Commit or an Abort (obj=None).
None == "None"

Action(op, i, obj) == [op |-> op, i |-> i, obj |-> obj]
r(t, obj) == Action(READ, t, obj)
w(t, obj) == Action(WRITE, t, obj)
commit(t) == Action(COMMIT, t, None)
abort(t) == Action(ABORT, t, None)

(***************************************************************************)
(* Bounds of the model.                                                    *)
(***************************************************************************)
\* Longest schedule over TxnIds and Objects.
MaxLen == 3
\* Longest schedule over TxnIds and the one object of DeepObjects.
MidLen == 4
\* Longest schedule over the two transactions and the one object of DeepTxnIds, DeepObjects.
DeepLen == 5
\* Largest sum of the lengths of a pair of schedules over PairTxnIds and PairObjects.
PairTotal == 4
\* Longest schedule of a pair of schedules over DeepTxnIds and DeepObjects.
PairLen == 2

TxnIds == {1, 2, 3}
Objects == {"X", "Y"}
DeepTxnIds == {1, 2}
DeepObjects == {"X"}
PairTxnIds == {1, 2}
PairObjects == {"X", "Y"}

(***************************************************************************)
(* Python values: a dict is a function whose domain is its key set, a      *)
(* list is a sequence, a set is a set.                                     *)
(***************************************************************************)
EmptyDict == [k \in {} |-> {}]
DictSet(d, k, v) == [x \in (DOMAIN d) \cup {k} |-> IF x = k THEN v ELSE d[x]]
\* defaultdict(list)[k]: the value of k, the empty list when k is no key.
ListAt(d, k) == IF k \in DOMAIN d THEN d[k] ELSE <<>>
Range(s) == {s[k] : k \in DOMAIN s}
Last(s) == s[Len(s)]

(***************************************************************************)
(* serial.py: helper functions                                             *)
(***************************************************************************)
RECURSIVE flatten(_)
flatten(ls) ==
    IF ls = <<>> THEN <<>> ELSE Head(ls) \o flatten(Tail(ls))

graphs_eq(g1, g2) == g1.nodes = g2.nodes /\ g1.edges = g2.edges

RECURSIVE transaction_ids_loop(_, _)
transaction_ids_loop(schedule, js) ==
    IF schedule = <<>> THEN js
    ELSE LET a == Head(schedule)
         IN  transaction_ids_loop(Tail(schedule),
                 IF a.i \notin Range(js) THEN Append(js, a.i) ELSE js)

transaction_ids(schedule) == transaction_ids_loop(schedule, <<>>)

\* Mutant: an action goes to the front of its partition.
RECURSIVE transactions_loop_prepending(_, _, _)
transactions_loop_prepending(schedule, index, partitions) ==
    IF schedule = <<>> THEN partitions
    ELSE LET a == Head(schedule)
         IN  transactions_loop_prepending(Tail(schedule), index,
                 [partitions EXCEPT ![index[a.i]] = <<a>> \o @])

RECURSIVE transactions_loop(_, _, _)
transactions_loop(schedule, index, partitions) ==
    IF schedule = <<>> THEN partitions
    ELSE LET a == Head(schedule)
         IN  transactions_loop(Tail(schedule), index,
                 [partitions EXCEPT ![index[a.i]] = Append(@, a)])

transactions(schedule) ==
    LET js == transaction_ids(schedule)
        index == [t \in Range(js) |-> CHOOSE k \in DOMAIN js : js[k] = t]
    IN  transactions_loop(schedule, index, [k \in DOMAIN js |-> <<>>])

\* Mutant: only the Aborts are dropped, the other actions of the aborted
\* transactions stay.
drop_aborts_only_the_aborts(schedule) ==
    SelectSeq(schedule, LAMBDA a : a.op # ABORT)

drop_aborts(schedule) ==
    LET aborteds == {schedule[k].i : k \in {n \in DOMAIN schedule : schedule[n].op = ABORT}}
    IN  SelectSeq(schedule, LAMBDA a : a.i \notin aborteds)

add_commits(schedule) ==
    LET ends == {schedule[k].i :
                    k \in {n \in DOMAIN schedule : schedule[n].op = COMMIT \/ schedule[n].op = ABORT}}
        no_ends == SelectSeq(transaction_ids(schedule), LAMBDA i : i \notin ends)
    IN  schedule \o [k \in DOMAIN no_ends |-> commit(no_ends[k])]

RECURSIVE first_read_loop(_, _, _)
first_read_loop(schedule, fr, written) ==
    IF schedule = <<>> THEN fr
    ELSE LET a == Head(schedule)
         IN  IF a.op = READ /\ a.obj \notin written
             THEN first_read_loop(Tail(schedule),
                      DictSet(fr, a.obj, Append(ListAt(fr, a.obj), a.i)), written)
             ELSE IF a.op = WRITE
             THEN first_read_loop(Tail(schedule), fr, written \cup {a.obj})
             ELSE first_read_loop(Tail(schedule), fr, written)

first_read(schedule) == first_read_loop(schedule, EmptyDict, {})

RECURSIVE number_loop(_, _, _)
number_loop(schedule, ns, s) ==
    IF schedule = <<>> THEN s
    ELSE LET a == Head(schedule)
         IN  number_loop(Tail(schedule), [ns EXCEPT ![a.i] = @ + 1],
                         Append(s, <<ns[a.i], a>>))

number(schedule) ==
    number_loop(schedule, [i \in Range(transaction_ids(schedule)) |-> 0], <<>>)

\* nx.DiGraph(): the node set and the edge set; add_edge adds both end points.
EmptyGraph == [nodes |-> {}, edges |-> {}]
add_edge(G, u, v) == [nodes |-> G.nodes \cup {u, v}, edges |-> G.edges \cup {<<u, v>>}]
add_nodes_from(G, ns) == [nodes |-> G.nodes \cup ns, edges |-> G.edges]

\* Mutant: the first Write to an object stays its last_written.
RECURSIVE view_graph_loop_first_write(_, _, _)
view_graph_loop_first_write(numbered, G, lw) ==
    IF numbered = <<>> THEN G
    ELSE LET ia == Head(numbered)
             a == ia[2]
         IN  IF a.op = WRITE
             THEN view_graph_loop_first_write(Tail(numbered), G,
                      IF a.obj \in DOMAIN lw THEN lw ELSE DictSet(lw, a.obj, ia))
             ELSE IF a.op = READ /\ a.obj \in DOMAIN lw
             THEN view_graph_loop_first_write(Tail(numbered), add_edge(G, ia, lw[a.obj]), lw)
             ELSE view_graph_loop_first_write(Tail(numbered), G, lw)

RECURSIVE view_graph_loop(_, _, _)
view_graph_loop(numbered, G, lw) ==
    IF numbered = <<>> THEN G
    ELSE LET ia == Head(numbered)
             a == ia[2]
         IN  IF a.op = WRITE
             THEN view_graph_loop(Tail(numbered), G, DictSet(lw, a.obj, ia))
             ELSE IF a.op = READ /\ a.obj \in DOMAIN lw
             THEN view_graph_loop(Tail(numbered), add_edge(G, ia, lw[a.obj]), lw)
             ELSE view_graph_loop(Tail(numbered), G, lw)

view_graph(schedule) == view_graph_loop(number(schedule), EmptyGraph, EmptyDict)

RECURSIVE last_written_loop(_, _)
last_written_loop(schedule, lw) ==
    IF schedule = <<>> THEN lw
    ELSE LET a == Head(schedule)
         IN  last_written_loop(Tail(schedule),
                 IF a.op = WRITE THEN DictSet(lw, a.obj, a.i) ELSE lw)

last_written(schedule) == last_written_loop(schedule, EmptyDict)

\* The outcome of a call: it returns a boolean, or its assert fails and
\* AssertionError is raised (no value is returned).
Return(v) == [raised |-> FALSE, value |-> v]
AssertionError == [raised |-> TRUE, value |-> FALSE]
Returns(outcome, v) == ~outcome.raised /\ outcome.value = v

\* Mutant: condition 3 (the final writers) is not checked.
view_equivalent_without_final_writes(s1, s2) ==
    IF ~(Range(transaction_ids(s1)) = Range(transaction_ids(s2))) THEN AssertionError
    ELSE IF ~(first_read(s1) = first_read(s2)) THEN Return(FALSE)
    ELSE IF ~graphs_eq(view_graph(s1), view_graph(s2)) THEN Return(FALSE)
    ELSE Return(TRUE)

\* Mutant: condition 3 looks only at the objects written in s1.
view_equivalent_final_writes_of_first(s1, s2) ==
    IF ~(Range(transaction_ids(s1)) = Range(transaction_ids(s2))) THEN AssertionError
    ELSE IF ~(first_read(s1) = first_read(s2)) THEN Return(FALSE)
    ELSE IF ~graphs_eq(view_graph(s1), view_graph(s2)) THEN Return(FALSE)
    ELSE IF ~(\A o \in DOMAIN last_written(s1) :
                 /\ o \in DOMAIN last_written(s2)
                 /\ last_written(s1)[o] = last_written(s2)[o]) THEN Return(FALSE)
    ELSE Return(TRUE)

\* Mutant: conditions 1 and 2 (the reads) are not checked.
view_equivalent_final_writes_only(s1, s2) ==
    IF ~(Range(transaction_ids(s1)) = Range(transaction_ids(s2))) THEN AssertionError
    ELSE IF ~(last_written(s1) = last_written(s2)) THEN Return(FALSE)
    ELSE Return(TRUE)

\* Mutant: the transaction ids are not asserted to be the same.
view_equivalent_without_assert(s1, s2) ==
    IF ~(first_read(s1) = first_read(s2)) THEN Return(FALSE)
    ELSE IF ~graphs_eq(view_graph(s1), view_graph(s2)) THEN Return(FALSE)
    ELSE IF ~(last_written(s1) = last_written(s2)) THEN Return(FALSE)
    ELSE Return(TRUE)

\* Mutant: condition 2 fails on equal view graphs.
view_equivalent_on_different_graphs(s1, s2) ==
    IF ~(Range(transaction_ids(s1)) = Range(transaction_ids(s2))) THEN AssertionError
    ELSE IF ~(first_read(s1) = first_read(s2)) THEN Return(FALSE)
    ELSE IF graphs_eq(view_graph(s1), view_graph(s2)) THEN Return(FALSE)
    ELSE IF ~(last_written(s1) = last_written(s2)) THEN Return(FALSE)
    ELSE Return(TRUE)

view_equivalent(s1, s2) ==
    IF ~(Range(transaction_ids(s1)) = Range(transaction_ids(s2))) THEN AssertionError
    ELSE IF ~(first_read(s1) = first_read(s2)) THEN Return(FALSE)
    ELSE IF ~graphs_eq(view_graph(s1), view_graph(s2)) THEN Return(FALSE)
    ELSE IF ~(last_written(s1) = last_written(s2)) THEN Return(FALSE)
    ELSE Return(TRUE)

(***************************************************************************)
(* serial.py: misc (conflict_graph is defined before its users)            *)
(***************************************************************************)
\* Mutant: only two Writes conflict.
conflicting_writes_only(a, b) ==
    LET same_obj == a.obj = b.obj
        diff_txn == a.i # b.i
        conflict == a.op = WRITE /\ b.op = WRITE
    IN  same_obj /\ diff_txn /\ conflict

\* Mutant: actions on different objects conflict too.
conflicting_any_object(a, b) ==
    LET diff_txn == a.i # b.i
        conflict == a.op = WRITE \/ b.op = WRITE
    IN  diff_txn /\ conflict

\* Mutant: two actions of one transaction conflict too.
conflicting_any_txn(a, b) ==
    LET same_obj == a.obj = b.obj
        conflict == a.op = WRITE \/ b.op = WRITE
    IN  same_obj /\ conflict

\* The test of the inner loop of conflict_graph.
conflicting(a, b) ==
    LET same_obj == a.obj = b.obj
        diff_txn == a.i # b.i
        conflict == a.op = WRITE \/ b.op = WRITE
    IN  same_obj /\ diff_txn /\ conflict

\* Mutant: an edge is not added when its reverse is in the graph already.
conflict_graph_one_direction(schedule0) ==
    LET schedule == drop_aborts(schedule0)
        G == add_nodes_from(EmptyGraph, Range(transaction_ids(schedule)))
        pairs == {ij \in (DOMAIN schedule) \X (DOMAIN schedule) :
                     /\ ij[1] < ij[2]
                     /\ conflicting(schedule[ij[1]], schedule[ij[2]])}
        found == {<<schedule[ij[1]].i, schedule[ij[2]].i>> : ij \in
                     {ij \in pairs :
                         ~\E kl \in pairs :
                             /\ schedule[kl[1]].i = schedule[ij[2]].i
                             /\ schedule[kl[2]].i = schedule[ij[1]].i
                             /\ (kl[1] < ij[1] \/ (kl[1] = ij[1] /\ kl[2] < ij[2]))}}
    IN  [nodes |-> G.nodes \cup {e[1] : e \in found} \cup {e[2] : e \in found},
         edges |-> G.edges \cup found]

\* Mutant: the aborted transactions are not dropped.
conflict_graph_keeping_aborts(schedule) ==
    LET G == add_nodes_from(EmptyGraph, Range(transaction_ids(schedule)))
        found == {<<schedule[i].i, schedule[j].i>> :
                     <<i, j>> \in {ij \in (DOMAIN schedule) \X (DOMAIN schedule) :
                         /\ ij[1] < ij[2]
                         /\ conflicting(schedule[ij[1]], schedule[ij[2]])}}
    IN  [nodes |-> G.nodes \cup {e[1] : e \in found} \cup {e[2] : e \in found},
         edges |-> G.edges \cup found]

conflict_graph(schedule0) ==
    LET schedule == drop_aborts(schedule0)
        G == add_nodes_from(EmptyGraph, Range(transaction_ids(schedule)))
        found == {<<schedule[i].i, schedule[j].i>> :
                     <<i, j>> \in {ij \in (DOMAIN schedule) \X (DOMAIN schedule) :
                         /\ ij[1] < ij[2]
                         /\ conflicting(schedule[ij[1]], schedule[ij[2]])}}
    IN  [nodes |-> G.nodes \cup {e[1] : e \in found} \cup {e[2] : e \in found},
         edges |-> G.edges \cup found]

\* nx.simple_cycles(G): the elementary circuits of G, each one listed once
\* (here from its least node).
simple_cycles(G) ==
    {p \in UNION {[1..n -> G.nodes] : n \in 1..Cardinality(G.nodes)} :
        /\ \A j, k \in DOMAIN p : j # k => p[j] # p[k]
        /\ \A k \in DOMAIN p : p[1] <= p[k]
        /\ \A k \in DOMAIN p :
               <<p[k], p[IF k = Len(p) THEN 1 ELSE k + 1]>> \in G.edges}

(***************************************************************************)
(* serial.py: predicates                                                   *)
(***************************************************************************)
\* Mutant: one cycle is let through.
conflict_serializable_but_one(schedule) ==
    Cardinality(simple_cycles(conflict_graph(schedule))) <= 1

conflict_serializable(schedule) ==
    Cardinality(simple_cycles(conflict_graph(schedule))) = 0

\* The scan of one transaction t for a blind write.
RECURSIVE blind_write_in(_, _)
blind_write_in(t, objects_read) ==
    IF t = <<>> THEN FALSE
    ELSE LET a == Head(t)
         IN  IF a.op = WRITE /\ a.obj \notin objects_read
             THEN TRUE
             ELSE IF a.op = READ
             THEN blind_write_in(Tail(t), objects_read \cup {a.obj})
             ELSE blind_write_in(Tail(t), objects_read)

\* itertools.permutations(xs): every ordering of xs, by position, in
\* lexicographic order of the positions.
RECURSIVE permutations(_)
permutations(xs) ==
    IF xs = <<>> THEN << <<>> >>
    ELSE flatten([k \in DOMAIN xs |->
             LET rest == permutations(SubSeq(xs, 1, k - 1) \o SubSeq(xs, k + 1, Len(xs)))
             IN  [n \in DOMAIN rest |-> <<xs[k]>> \o rest[n]]])

RECURSIVE view_serializable_search(_, _)
view_serializable_search(perms, schedule) ==
    IF perms = <<>> THEN Return(FALSE)
    ELSE LET s == flatten(Head(perms))
             eq == view_equivalent(s, schedule)
         IN  IF eq.raised THEN AssertionError
             ELSE IF eq.value THEN Return(TRUE)
             ELSE view_serializable_search(Tail(perms), schedule)

\* Mutant: no conflict-serializability shortcut.
view_serializable_without_shortcut(schedule0) ==
    LET schedule == drop_aborts(schedule0)
        partitions == transactions(schedule)
        blind_write == \E k \in DOMAIN partitions : blind_write_in(partitions[k], {})
    IN  IF ~blind_write THEN Return(FALSE)
        ELSE view_serializable_search(permutations(transactions(schedule)), schedule)

\* Mutant: the serial schedules are compared with the schedule as given, the
\* aborted transactions still in it.
view_serializable_against_given(schedule0) ==
    LET schedule == drop_aborts(schedule0)
    IN  IF conflict_serializable(schedule) THEN Return(TRUE)
        ELSE LET partitions == transactions(schedule)
                 blind_write == \E k \in DOMAIN partitions : blind_write_in(partitions[k], {})
             IN  IF ~blind_write THEN Return(FALSE)
                 ELSE view_serializable_search(permutations(transactions(schedule)), schedule0)

view_serializable(schedule0) ==
    LET schedule == drop_aborts(schedule0)
    IN  IF conflict_serializable(schedule) THEN Return(TRUE)
        ELSE LET partitions == transactions(schedule)
                 blind_write == \E k \in DOMAIN partitions : blind_write_in(partitions[k], {})
             IN  IF ~blind_write THEN Return(FALSE)
                 ELSE view_serializable_search(permutations(transactions(schedule)), schedule)

\* Mutant: an Abort leaves the write histories as they are.
purge_nothing(written_by, t) == written_by

\* for (o, ids) in written_by.iteritems(): written_by[o] = [i for i in ids if i != a.i]
purge(written_by, t) ==
    [o \in DOMAIN written_by |-> SelectSeq(written_by[o], LAMBDA i : i # t)]

\* written_by after the loop of recoverable has gone through schedule: a Write
\* appends its transaction to its object's list, an Abort purges its own
\* (last_write in aca and strict is kept the same way).
RECURSIVE written_by_loop(_, _)
written_by_loop(schedule, written_by) ==
    IF schedule = <<>> THEN written_by
    ELSE LET a == Head(schedule)
             rest == Tail(schedule)
         IN  IF a.op = WRITE
             THEN written_by_loop(rest,
                      DictSet(written_by, a.obj, Append(ListAt(written_by, a.obj), a.i)))
             ELSE IF a.op = ABORT
             THEN written_by_loop(rest, purge(written_by, a.i))
             ELSE written_by_loop(rest, written_by)

written_by_after(schedule) == written_by_loop(schedule, EmptyDict)

\* defaultdict(set)[k]
SetAt(d, k) == IF k \in DOMAIN d THEN d[k] ELSE {}

\* Mutant: a Read of the transaction's own most recent write is recorded too.
reads_from_other_or_self(written_by, a) ==
    /\ a.obj \in DOMAIN written_by
    /\ Len(written_by[a.obj]) > 0

\* The condition of the Read branch of recoverable.
reads_from_other(written_by, a) ==
    /\ a.obj \in DOMAIN written_by
    /\ Len(written_by[a.obj]) > 0
    /\ Last(written_by[a.obj]) # a.i

\* Mutant: an Abort also retracts the read-from dependencies on the aborting
\* transaction.
RECURSIVE recoverable_loop_retracting(_, _, _, _)
recoverable_loop_retracting(schedule, written_by, read_from, committed) ==
    IF schedule = <<>> THEN TRUE
    ELSE LET a == Head(schedule)
             rest == Tail(schedule)
         IN  IF a.op = WRITE
             THEN recoverable_loop_retracting(rest,
                      DictSet(written_by, a.obj, Append(ListAt(written_by, a.obj), a.i)),
                      read_from, committed)
             ELSE IF a.op = READ
             THEN IF reads_from_other(written_by, a)
                  THEN recoverable_loop_retracting(rest, written_by,
                           DictSet(read_from, a.i,
                                   SetAt(read_from, a.i) \cup {Last(written_by[a.obj])}),
                           committed)
                  ELSE recoverable_loop_retracting(rest, written_by, read_from, committed)
             ELSE IF a.op = COMMIT
             THEN IF ~(\A i \in SetAt(read_from, a.i) : i \in committed)
                  THEN FALSE
                  ELSE recoverable_loop_retracting(rest, written_by, read_from,
                                                   committed \cup {a.i})
             ELSE IF a.op = ABORT
             THEN recoverable_loop_retracting(rest, purge(written_by, a.i),
                      [t \in DOMAIN read_from |-> read_from[t] \ {a.i}], committed)
             ELSE recoverable_loop_retracting(rest, written_by, read_from, committed)

RECURSIVE recoverable_loop(_, _, _, _)
recoverable_loop(schedule, written_by, read_from, committed) ==
    IF schedule = <<>> THEN TRUE
    ELSE LET a == Head(schedule)
             rest == Tail(schedule)
         IN  IF a.op = WRITE
             THEN recoverable_loop(rest,
                      DictSet(written_by, a.obj, Append(ListAt(written_by, a.obj), a.i)),
                      read_from, committed)
             ELSE IF a.op = READ
             THEN IF reads_from_other(written_by, a)
                  THEN recoverable_loop(rest, written_by,
                           DictSet(read_from, a.i,
                                   SetAt(read_from, a.i) \cup {Last(written_by[a.obj])}),
                           committed)
                  ELSE recoverable_loop(rest, written_by, read_from, committed)
             ELSE IF a.op = COMMIT
             THEN IF ~(\A i \in SetAt(read_from, a.i) : i \in committed)
                  THEN FALSE
                  ELSE recoverable_loop(rest, written_by, read_from, committed \cup {a.i})
             ELSE IF a.op = ABORT
             THEN recoverable_loop(rest, purge(written_by, a.i), read_from, committed)
             ELSE recoverable_loop(rest, written_by, read_from, committed)

recoverable(schedule) ==
    recoverable_loop(add_commits(schedule), EmptyDict, EmptyDict, {})

\* Mutant: only a Read is checked, a Write may overwrite an uncommitted write.
strict_dirty_read_only(last_write, committed, a) ==
    /\ a.op = READ
    /\ a.obj \in DOMAIN last_write
    /\ Len(last_write[a.obj]) > 0
    /\ Last(last_write[a.obj]) \notin committed
    /\ Last(last_write[a.obj]) # a.i

\* Mutant: an access to a committed transaction's write fails too.
strict_access_of_any_other(last_write, committed, a) ==
    /\ a.obj \in DOMAIN last_write
    /\ Len(last_write[a.obj]) > 0
    /\ Last(last_write[a.obj]) # a.i

\* Mutant: an access to the transaction's own uncommitted write fails too.
strict_dirty_access_or_own(last_write, committed, a) ==
    /\ a.obj \in DOMAIN last_write
    /\ Len(last_write[a.obj]) > 0
    /\ Last(last_write[a.obj]) \notin committed

\* The condition of the Read/Write branch of strict.
strict_dirty_access(last_write, committed, a) ==
    /\ a.obj \in DOMAIN last_write
    /\ Len(last_write[a.obj]) > 0
    /\ Last(last_write[a.obj]) \notin committed
    /\ Last(last_write[a.obj]) # a.i

RECURSIVE strict_loop(_, _, _)
strict_loop(schedule, last_write, committed) ==
    IF schedule = <<>> THEN TRUE
    ELSE LET a == Head(schedule)
             rest == Tail(schedule)
         IN  IF a.op = WRITE \/ a.op = READ
             THEN IF strict_dirty_access(last_write, committed, a)
                  THEN FALSE
                  ELSE IF a.op = WRITE
                  THEN strict_loop(rest,
                           DictSet(last_write, a.obj, Append(ListAt(last_write, a.obj), a.i)),
                           committed)
                  ELSE strict_loop(rest, last_write, committed)
             ELSE IF a.op = COMMIT
             THEN strict_loop(rest, last_write, committed \cup {a.i})
             ELSE IF a.op = ABORT
             THEN strict_loop(rest, purge(last_write, a.i), committed)
             ELSE strict_loop(rest, last_write, committed)

strict(schedule) == strict_loop(add_commits(schedule), EmptyDict, {})

\* Mutant: a Read of the transaction's own uncommitted write fails too.
aca_dirty_read_or_own(last_write, committed, a) ==
    /\ a.obj \in DOMAIN last_write
    /\ Len(last_write[a.obj]) > 0
    /\ Last(last_write[a.obj]) \notin committed

\* Mutant: a Read of a committed transaction's write fails too.
aca_read_of_any_other(last_write, committed, a) ==
    /\ a.obj \in DOMAIN last_write
    /\ Len(last_write[a.obj]) > 0
    /\ Last(last_write[a.obj]) # a.i

\* The condition of the Read branch of aca.
aca_dirty_read(last_write, committed, a) ==
    /\ a.obj \in DOMAIN last_write
    /\ Len(last_write[a.obj]) > 0
    /\ Last(last_write[a.obj]) \notin committed
    /\ Last(last_write[a.obj]) # a.i

RECURSIVE aca_loop(_, _, _)
aca_loop(schedule, last_write, committed) ==
    IF schedule = <<>> THEN TRUE
    ELSE LET a == Head(schedule)
             rest == Tail(schedule)
         IN  IF a.op = WRITE
             THEN aca_loop(rest,
                      DictSet(last_write, a.obj, Append(ListAt(last_write, a.obj), a.i)),
                      committed)
             ELSE IF a.op = READ
             THEN IF aca_dirty_read(last_write, committed, a)
                  THEN FALSE
                  ELSE aca_loop(rest, last_write, committed)
             ELSE IF a.op = COMMIT
             THEN aca_loop(rest, last_write, committed \cup {a.i})
             ELSE IF a.op = ABORT
             THEN aca_loop(rest, purge(last_write, a.i), committed)
             ELSE aca_loop(rest, last_write, committed)

\* Mutant: aca checks Writes as strict does.
aca_as_strict(schedule) == strict(schedule)

aca(schedule) == aca_loop(add_commits(schedule), EmptyDict, {})

(***************************************************************************)
(* schedule.py: characterize, the five verdicts on one schedule.           *)
(***************************************************************************)
characterize(sched) ==
    [vs |-> view_serializable(sched), cs |-> conflict_serializable(sched),
     rec |-> recoverable(sched), aca |-> aca(sched), sct |-> strict(sched)]

(***************************************************************************)
(* The state: the schedule handed to the classifiers and their verdicts    *)
(* on it; the second schedule handed to view_equivalent and its outcome.   *)
(***************************************************************************)
VARIABLES schedule, verdict, other, equivalent

vars == <<schedule, verdict, other, equivalent>>

Init ==
    /\ schedule = <<>>
    /\ other = <<>>
    /\ verdict = characterize(<<>>)
    /\ equivalent = view_equivalent(<<>>, <<>>)

Over(s, ids, objs) ==
    \A k \in DOMAIN s : s[k].i \in ids /\ s[k].obj \in objs \cup {None}

InBounds(s) ==
    \/ Len(s) <= MaxLen /\ Over(s, TxnIds, Objects)
    \/ Len(s) <= MidLen /\ Over(s, TxnIds, DeepObjects)
    \/ Len(s) <= DeepLen /\ Over(s, DeepTxnIds, DeepObjects)

\* The schedule after one more action a, when it is within the bounds.
Extended(a) == Append(schedule, a)

\* Each action of the generator: the schedule grows by one action and is
\* characterized.
Read ==
    \E t \in TxnIds, o \in Objects :
        /\ InBounds(Extended(r(t, o)))
        /\ schedule' = Extended(r(t, o))
        /\ verdict' = characterize(schedule')
        /\ UNCHANGED <<other, equivalent>>

Write ==
    \E t \in TxnIds, o \in Objects :
        /\ InBounds(Extended(w(t, o)))
        /\ schedule' = Extended(w(t, o))
        /\ verdict' = characterize(schedule')
        /\ UNCHANGED <<other, equivalent>>

Commit ==
    \E t \in TxnIds :
        /\ InBounds(Extended(commit(t)))
        /\ schedule' = Extended(commit(t))
        /\ verdict' = characterize(schedule')
        /\ UNCHANGED <<other, equivalent>>

Abort ==
    \E t \in TxnIds :
        /\ InBounds(Extended(abort(t)))
        /\ schedule' = Extended(abort(t))
        /\ verdict' = characterize(schedule')
        /\ UNCHANGED <<other, equivalent>>

Next == Read \/ Write \/ Commit \/ Abort

Spec == Init /\ [][Next]_vars

\* A pair of schedules handed to view_equivalent: either one grows by one
\* action, and the pair is compared.
PairInBounds(s1, s2) ==
    \/ /\ Len(s1) + Len(s2) <= PairTotal
       /\ Over(s1, PairTxnIds, PairObjects)
       /\ Over(s2, PairTxnIds, PairObjects)
    \/ /\ Len(s1) <= PairLen /\ Len(s2) <= PairLen
       /\ Over(s1, DeepTxnIds, DeepObjects)
       /\ Over(s2, DeepTxnIds, DeepObjects)

ExtendFirst(a) ==
    /\ PairInBounds(Append(schedule, a), other)
    /\ schedule' = Append(schedule, a)
    /\ verdict' = characterize(schedule')
    /\ equivalent' = view_equivalent(schedule', other)
    /\ UNCHANGED other

ExtendSecond(a) ==
    /\ PairInBounds(schedule, Append(other, a))
    /\ other' = Append(other, a)
    /\ equivalent' = view_equivalent(schedule, other')
    /\ UNCHANGED <<schedule, verdict>>

PairReadWrite ==
    \E t \in PairTxnIds, o \in PairObjects :
        \E a \in {r(t, o), w(t, o)} : ExtendFirst(a) \/ ExtendSecond(a)

PairCommitAbort ==
    \E t \in PairTxnIds :
        \E a \in {commit(t), abort(t)} : ExtendFirst(a) \/ ExtendSecond(a)

PairNext == PairReadWrite \/ PairCommitAbort

SpecPair == Init /\ [][PairNext]_vars

(***************************************************************************)
(* Properties.  They are stated over positions of the schedule, not by the *)
(* loops of the code.                                                      *)
(***************************************************************************)
Positions(s) == DOMAIN s

\* Each transaction has at most one Commit or Abort, and it is its last action.
WellFormed(s) ==
    \A p \in Positions(s) :
        s[p].op \in {COMMIT, ABORT} => \A q \in Positions(s) : q > p => s[q].i # s[p].i

\* The writer of the latest Write, before position p, to the object of s[p],
\* among the transactions that have no Abort before p; 0 when there is none.
MostRecentWriter(s, p) ==
    LET qs == {q \in Positions(s) :
                  /\ q < p
                  /\ s[q].op = WRITE
                  /\ s[q].obj = s[p].obj
                  /\ ~\E k \in Positions(s) : k < p /\ s[k] = abort(s[q].i)}
    IN  IF qs = {} THEN 0 ELSE s[CHOOSE q \in qs : \A q2 \in qs : q2 <= q].i

CommittedBefore(s, u, p) == \E k \in Positions(s) : k < p /\ s[k] = commit(u)

\* s[p] touches an object whose most recent surviving writer is another
\* transaction that has no Commit before position c.
DirtyAt(s, p, c) ==
    LET u == MostRecentWriter(s, p)
    IN  u # 0 /\ u # s[p].i /\ ~CommittedBefore(s, u, c)

\* C1: for every schedule, strict implies aca and aca implies recoverable.
C1_StrictAcaRecoverable ==
    /\ verdict.sct => verdict.aca
    /\ verdict.aca => verdict.rec

\* A strict schedule in which a transaction reads another transaction's write.
C1_Witness ==
    /\ verdict.sct /\ verdict.aca /\ verdict.rec
    /\ \E p \in Positions(schedule) :
           /\ schedule[p].op = READ
           /\ MostRecentWriter(schedule, p) \notin {0, schedule[p].i}

\* The serial schedules over the transactions of s: the permutations of its
\* partitions, concatenated.
Serializations(s) ==
    LET parts == transactions(s)
        n == Len(parts)
    IN  {flatten([k \in 1..n |-> parts[f[k]]]) :
            f \in {g \in [1..n -> 1..n] : \A j, k \in 1..n : j # k => g[j] # g[k]}}

SomeSerializationViewEquivalent(s) ==
    \E ser \in Serializations(s) : Returns(view_equivalent(ser, s), TRUE)

\* C2: view_serializable returns true iff some serial permutation of the
\* partitions of drop_aborts(S) is view_equivalent to drop_aborts(S).
C2_ViewSerializableIffSerialization ==
    Returns(verdict.vs, TRUE) <=> SomeSerializationViewEquivalent(drop_aborts(schedule))

\* C3: conflict_serializable(S) implies view_serializable(S).
C3_ConflictImpliesView ==
    verdict.cs => Returns(verdict.vs, TRUE)

\* A conflict-serializable schedule with a conflict between two transactions.
C3_Witness ==
    /\ verdict.cs
    /\ conflict_graph(schedule).edges # {}
    /\ Returns(verdict.vs, TRUE)

\* The ids of the transactions that first-read object o (a Read with no
\* earlier Write to o), in schedule order.
FirstReaders(s, o) ==
    LET ps == SelectSeq([k \in Positions(s) |-> k],
                  LAMBDA p : /\ s[p].op = READ /\ s[p].obj = o
                             /\ ~\E q \in Positions(s) : q < p /\ s[q].op = WRITE /\ s[q].obj = o)
    IN  [k \in DOMAIN ps |-> s[ps[k]].i]

\* The action at position p with its zero-based index in its transaction.
Numbered(s, p) ==
    <<Cardinality({k \in Positions(s) : k < p /\ s[k].i = s[p].i}), s[p]>>

\* The pairs (numbered Read, the numbered latest Write to its object before it).
ReadsFrom(s) ==
    {<<Numbered(s, p), Numbered(s, q)>> :
        <<p, q>> \in {pq \in Positions(s) \X Positions(s) :
            /\ pq[2] < pq[1]
            /\ s[pq[1]].op = READ
            /\ s[pq[2]].op = WRITE
            /\ s[pq[2]].obj = s[pq[1]].obj
            /\ ~\E k \in Positions(s) :
                   pq[2] < k /\ k < pq[1] /\ s[k].op = WRITE /\ s[k].obj = s[pq[1]].obj}}

\* The writer of the last Write to o; 0 when o is never written.
FinalWriter(s, o) ==
    LET qs == {q \in Positions(s) : s[q].op = WRITE /\ s[q].obj = o}
    IN  IF qs = {} THEN 0 ELSE s[CHOOSE q \in qs : \A q2 \in qs : q2 <= q].i

ObjectsOf(s) == {s[p].obj : p \in {q \in Positions(s) : s[q].op \in {READ, WRITE}}}

Agreement(s1, s2) ==
    /\ \A o \in ObjectsOf(s1) \cup ObjectsOf(s2) : FirstReaders(s1, o) = FirstReaders(s2, o)
    /\ ReadsFrom(s1) = ReadsFrom(s2)
    /\ \A o \in ObjectsOf(s1) \cup ObjectsOf(s2) : FinalWriter(s1, o) = FinalWriter(s2, o)

IdSet(s) == {s[p].i : p \in Positions(s)}

\* C4 (as stated): over the same transaction ids, view_equivalent(S1, S2)
\* returns true iff the three agreements hold between drop_aborts(S1) and
\* drop_aborts(S2).
C4_AgreementAfterDropAborts ==
    IdSet(schedule) = IdSet(other) =>
        (Returns(equivalent, TRUE) <=> Agreement(drop_aborts(schedule), drop_aborts(other)))

\* C4 (amended): over the same transaction ids, view_equivalent(S1, S2)
\* returns a boolean, and returns true iff the three agreements hold between
\* S1 and S2 as they are given, the actions of aborted transactions included.
C4_AgreementAsGiven ==
    IdSet(schedule) = IdSet(other) =>
        /\ ~equivalent.raised
        /\ equivalent.value <=> Agreement(schedule, other)

\* Two different schedules, one with an aborted transaction, that are
\* view-equivalent.
C4_Witness ==
    /\ IdSet(schedule) = IdSet(other)
    /\ schedule # other
    /\ \E p \in Positions(schedule) : schedule[p].op = ABORT
    /\ \E o \in ObjectsOf(schedule) : FirstReaders(schedule, o) # <<>>
    /\ Returns(equivalent, TRUE)

\* Some transaction commits in s after reading from another transaction that
\* has not committed before that Commit.
CommitsBeforeSource(s) ==
    \E c \in Positions(s) : \E p \in Positions(s) :
        /\ p < c
        /\ s[c].op = COMMIT
        /\ s[p].op = READ
        /\ s[p].i = s[c].i
        /\ DirtyAt(s, p, c)

\* C5: for a well-formed schedule, recoverable returns false iff in
\* add_commits(S) some transaction commits after a Read whose most recent
\* surviving writer is another transaction with no Commit before that Commit.
C5_RecoverableIff ==
    WellFormed(schedule) =>
        (verdict.rec = FALSE <=> CommitsBeforeSource(add_commits(schedule)))

\* A well-formed schedule with an explicit Commit that is not recoverable.
C5_Witness ==
    /\ WellFormed(schedule)
    /\ verdict.rec = FALSE
    /\ CommitsBeforeSource(schedule)

\* Some Read of s reads the write of another transaction that has not
\* committed before the Read.
HasDirtyRead(s) ==
    \E p \in Positions(s) : s[p].op = READ /\ DirtyAt(s, p, p)

\* C6: for a well-formed schedule, aca returns false iff add_commits(S) has a
\* Read whose most recent surviving writer is another transaction with no
\* Commit before the Read.
C6_AcaIff ==
    WellFormed(schedule) =>
        (verdict.aca = FALSE <=> HasDirtyRead(add_commits(schedule)))

\* A well-formed schedule that passes aca with a Read of a committed write and
\* a Read of the reader's own write.
C6_Witness ==
    /\ WellFormed(schedule)
    /\ verdict.aca
    /\ \E p \in Positions(schedule) :
           /\ schedule[p].op = READ
           /\ MostRecentWriter(schedule, p) \notin {0, schedule[p].i}
    /\ \E p \in Positions(schedule) :
           /\ schedule[p].op = READ
           /\ MostRecentWriter(schedule, p) = schedule[p].i

\* Some Read or Write of s touches the write of another transaction that has
\* not committed before it.
HasDirtyAccess(s) ==
    \E p \in Positions(s) : s[p].op \in {READ, WRITE} /\ DirtyAt(s, p, p)

\* C7: for a well-formed schedule, strict returns false iff add_commits(S) has
\* a Read or a Write whose most recent surviving writer is another transaction
\* with no Commit before it.
C7_StrictIff ==
    WellFormed(schedule) =>
        (verdict.sct = FALSE <=> HasDirtyAccess(add_commits(schedule)))

\* A well-formed schedule that fails strict only by a Write over an
\* uncommitted write.
C7_Witness ==
    /\ WellFormed(schedule)
    /\ verdict.sct = FALSE
    /\ ~HasDirtyRead(add_commits(schedule))

ScenarioB == <<r(1, "X"), w(2, "X"), w(1, "X"), commit(2), commit(1)>>

\* C8 (as stated): on Scenario B recoverable, aca and strict all return false.
C8_ScenarioBAllFalse ==
    schedule = ScenarioB =>
        verdict.rec = FALSE /\ verdict.aca = FALSE /\ verdict.sct = FALSE

\* C8 (amended): on Scenario B recoverable and aca return true and strict
\* returns false.
C8_ScenarioBOnlyStrictFalse ==
    schedule = ScenarioB =>
        verdict.rec = TRUE /\ verdict.aca = TRUE /\ verdict.sct = FALSE

C8_Witness == schedule = ScenarioB

\* No Read of an object is preceded by a Write to it by another transaction.
NoReadAfterForeignWrite(s) ==
    \A p \in Positions(s) : \A q \in Positions(s) :
        ~(/\ q < p
          /\ s[p].op = READ
          /\ s[q].op = WRITE
          /\ s[q].obj = s[p].obj
          /\ s[q].i # s[p].i)

\* C9: a schedule in which no Read of an object is preceded by a Write to it
\* by a different transaction is recoverable and avoids cascading aborts.
C9_NoForeignReadIsRecoverableAca ==
    NoReadAfterForeignWrite(schedule) => verdict.rec /\ verdict.aca

\* Such a schedule where two transactions write the object one of them read,
\* one of the writers aborts and the other commits.
C9_Witness ==
    /\ NoReadAfterForeignWrite(schedule)
    /\ WellFormed(schedule)
    /\ verdict.rec /\ verdict.aca /\ ~verdict.sct
    /\ \E p \in Positions(schedule) : schedule[p].op = ABORT
    /\ \E p \in Positions(schedule) : schedule[p].op = COMMIT
    /\ \E p \in Positions(schedule) : schedule[p].op = READ

\* a -> b: an action of a precedes an action of b in s, on the same object,
\* a # b, at least one of the two a Write.
ConflictEdge(s, a, b) ==
    \E p \in Positions(s) : \E q \in Positions(s) :
        /\ p < q
        /\ s[p].i = a /\ s[q].i = b /\ a # b
        /\ s[p].op \in {READ, WRITE} /\ s[q].op \in {READ, WRITE}
        /\ s[p].obj = s[q].obj
        /\ WRITE \in {s[p].op, s[q].op}

\* The actions of the transactions of s that have no Abort in s.
Survivors(s) ==
    SelectSeq(s, LAMBDA a : ~\E p \in Positions(s) : s[p] = abort(a.i))

\* C10: the nodes of conflict_graph(S) are the transaction ids of
\* drop_aborts(S), its edges are the conflicts between different surviving
\* transactions in schedule order; no self-loop, and no edge when no object is
\* touched by two surviving transactions.
C10_ConflictGraph ==
    LET G == conflict_graph(schedule)
        D == Survivors(schedule)
    IN  /\ G.nodes = IdSet(D)
        /\ G.edges = {e \in IdSet(D) \X IdSet(D) : ConflictEdge(D, e[1], e[2])}
        /\ \A n \in G.nodes : <<n, n>> \notin G.edges
        /\ (\A p \in Positions(D) : \A q \in Positions(D) :
               (D[p].op \in {READ, WRITE} /\ D[q].op \in {READ, WRITE} /\ D[p].obj = D[q].obj)
                   => D[p].i = D[q].i)
               => G.edges = {}

\* A graph with a conflict edge but not its reverse, built from a well-formed
\* schedule in which an aborted transaction conflicts with a surviving one.
C10_Witness ==
    LET G == conflict_graph(schedule)
    IN  /\ WellFormed(schedule)
        /\ \E e \in G.edges : <<e[2], e[1]>> \notin G.edges
        /\ \E a \in IdSet(schedule) : \E b \in IdSet(schedule) :
               ConflictEdge(schedule, a, b) /\ <<a, b>> \notin G.edges

\* The nodes one edge away from a node of N.
Successors(G, N) == {e[2] : e \in {f \in G.edges : f[1] \in N}}

\* The nodes reachable from N by zero or more edges.
RECURSIVE ReachableFrom(_, _)
ReachableFrom(G, N) ==
    LET M == N \cup Successors(G, N)
    IN  IF M = N THEN N ELSE ReachableFrom(G, M)

\* Some node reaches itself by one or more edges.
HasDirectedCycle(G) ==
    \E n \in G.nodes : n \in ReachableFrom(G, Successors(G, {n}))

\* The schedule without its last action.
Prefix(s) == SubSeq(s, 1, Len(s) - 1)

\* C11: conflict_serializable(S) is true iff conflict_graph(S) has no directed
\* cycle; so when S was conflict-serializable before its last action and that
\* action closes a cycle, conflict_serializable becomes false.
C11_ConflictSerializableIffAcyclic ==
    /\ verdict.cs <=> ~HasDirectedCycle(conflict_graph(schedule))
    /\ (/\ schedule # <<>>
        /\ conflict_serializable(Prefix(schedule))
        /\ HasDirectedCycle(conflict_graph(schedule)))
           => verdict.cs = FALSE

\* A schedule whose last action closes a cycle through three transactions.
C11_Witness ==
    /\ schedule # <<>>
    /\ conflict_serializable(Prefix(schedule))
    /\ verdict.cs = FALSE
    /\ Cardinality(conflict_graph(schedule).nodes) = 3
    /\ \E p \in simple_cycles(conflict_graph(schedule)) : Len(p) = 3

\* The total orders of a set of transaction ids: each id with its rank.
TotalOrders(ids) ==
    {f \in [ids -> 1..Cardinality(ids)] : \A a, b \in ids : a # b => f[a] # f[b]}

\* rank orders first, for every two conflicting actions of different
\* transactions, the transaction whose action comes first in s.
ConflictPreserving(s, rank) ==
    \A a \in DOMAIN rank : \A b \in DOMAIN rank :
        ConflictEdge(s, a, b) => rank[a] < rank[b]

\* C12: conflict_serializable(S) is true iff some total order of the
\* transaction ids of drop_aborts(S) preserves the order of every pair of
\* conflicting actions of different transactions.
C12_ConflictSerializableIffSerialOrder ==
    LET D == Survivors(schedule)
    IN  verdict.cs <=> \E rank \in TotalOrders(IdSet(D)) : ConflictPreserving(D, rank)

\* A conflict-serializable schedule of three transactions that conflict, whose
\* only conflict-preserving order is not the order of first appearance.
C12_Witness ==
    LET D == Survivors(schedule)
    IN  /\ verdict.cs
        /\ Cardinality(IdSet(D)) = 3
        /\ \E rank \in TotalOrders(IdSet(D)) :
               /\ ConflictPreserving(D, rank)
               /\ \E a \in IdSet(D) : \E b \in IdSet(D) : a < b /\ rank[b] < rank[a]
        /\ ~\E rank \in TotalOrders(IdSet(D)) :
               /\ ConflictPreserving(D, rank)
               /\ \A a \in IdSet(D) : \A b \in IdSet(D) : a < b => rank[a] < rank[b]

\* C13: two surviving transactions that conflict in both directions give both
\* edges in conflict_graph(S) and make conflict_serializable(S) false; on
\* Scenario B the graph has the cycle 1 -> 2 -> 1.
C13_ConflictBothWays ==
    LET D == Survivors(schedule)
        G == conflict_graph(schedule)
    IN  /\ \A a \in IdSet(D) : \A b \in IdSet(D) :
               (ConflictEdge(D, a, b) /\ ConflictEdge(D, b, a))
                   => /\ <<a, b>> \in G.edges
                      /\ <<b, a>> \in G.edges
                      /\ verdict.cs = FALSE
        /\ schedule = ScenarioB
               => /\ {<<1, 2>>, <<2, 1>>} \subseteq G.edges
                  /\ verdict.cs = FALSE

\* Scenario B, with its two edges and its verdict.
C13_Witness ==
    /\ schedule = ScenarioB
    /\ conflict_graph(schedule).edges = {<<1, 2>>, <<2, 1>>}
    /\ verdict.cs = FALSE

\* C14: view_equivalent(S1, S2) on schedules whose sets of transaction ids
\* differ fails on its assertion and returns no boolean.
C14_DifferentIdsRaise ==
    IdSet(schedule) # IdSet(other) =>
        /\ equivalent.raised
        /\ equivalent = AssertionError
        /\ ~Returns(equivalent, TRUE)
        /\ ~Returns(equivalent, FALSE)

\* Two schedules that differ only by one transaction that commits without a
\* read or a write: the three conditions agree, the call still fails.
C14_Witness ==
    /\ IdSet(schedule) # IdSet(other)
    /\ Agreement(schedule, other)
    /\ \E o \in ObjectsOf(schedule) : FirstReaders(schedule, o) # <<>>
    /\ equivalent.raised

\* C15: view_equivalent(S, S) returns true for every schedule S.
C15_ViewEquivalentReflexive ==
    schedule = other => Returns(equivalent, TRUE)

\* A schedule in which a written value is read, compared with itself.
C15_Witness ==
    /\ schedule = other
    /\ ReadsFrom(schedule) # {}
    /\ Returns(equivalent, TRUE)

\* The five verdicts are all true.
AllTrue(v) ==
    /\ Returns(v.vs, TRUE)
    /\ v.cs = TRUE
    /\ v.rec = TRUE
    /\ v.aca = TRUE
    /\ v.sct = TRUE

\* The transactions that read or write object o in s.
Accessors(s, o) ==
    {s[p].i : p \in {q \in Positions(s) : s[q].op \in {READ, WRITE} /\ s[q].obj = o}}

\* No object is read or written by two different transactions.
NoSharedObject(s) == \A o \in ObjectsOf(s) : Cardinality(Accessors(s, o)) <= 1

\* Scenario A: two transactions on the objects A and C, and B.
ScenarioA ==
    <<r(1, "A"), w(1, "A"), r(2, "B"), w(2, "B"), r(1, "C"), w(1, "C"),
      commit(1), commit(2)>>

\* C16: when no object is accessed by two different transactions, the five
\* predicates are all true, whatever the interleaving and the Commits/Aborts.
C16_DisjointObjectsAllTrue ==
    /\ NoSharedObject(schedule) => AllTrue(verdict)
    /\ schedule = <<>> => NoSharedObject(ScenarioA) /\ AllTrue(characterize(ScenarioA))

\* Two interleaved transactions on different objects, one writes and then reads
\* again after the other has written.
C16_Witness ==
    /\ NoSharedObject(schedule)
    /\ Cardinality(ObjectsOf(schedule)) = 2
    /\ \E p, q, u \in Positions(schedule) :
           /\ p < q /\ q < u
           /\ schedule[p].op = WRITE
           /\ schedule[q].op = WRITE
           /\ schedule[u].op = READ
           /\ schedule[p].i = schedule[u].i
           /\ schedule[p].i # schedule[q].i
    /\ AllTrue(verdict)

\* Every action is of one transaction: reads and writes, then at most a Commit.
SingleTransaction(s) ==
    /\ Cardinality(IdSet(s)) <= 1
    /\ \A p \in Positions(s) :
           /\ s[p].op # ABORT
           /\ s[p].op = COMMIT => p = Len(s)

\* C17: on a schedule of one transaction (reads and writes in any order, then
\* optionally a Commit) the five predicates are all true: its own uncommitted
\* writes fail none of recoverable, aca and strict.
C17_SingleTransactionAllTrue ==
    SingleTransaction(schedule) => AllTrue(verdict)

\* One transaction writes an object, then reads it and writes it again.
C17_Witness ==
    /\ SingleTransaction(schedule)
    /\ \E p, q, u \in Positions(schedule) :
           /\ p < q /\ q < u
           /\ schedule[p].op = WRITE
           /\ schedule[q].op = READ
           /\ schedule[u].op = WRITE
           /\ schedule[p].obj = schedule[q].obj
           /\ schedule[p].obj = schedule[u].obj
    /\ schedule[Len(schedule)].op = COMMIT
    /\ AllTrue(verdict)

\* The first and the last position of transaction i in s.
FirstPosition(s, i) ==
    CHOOSE p \in Positions(s) : s[p].i = i /\ \A q \in Positions(s) : s[q].i = i => p <= q

LastPosition(s, i) ==
    CHOOSE p \in Positions(s) : s[p].i = i /\ \A q \in Positions(s) : s[q].i = i => q <= p

\* The transactions whose last action in s is neither a Commit nor an Abort.
Unended(s) == {i \in IdSet(s) : s[LastPosition(s, i)].op \notin {COMMIT, ABORT}}

\* t is s, then one Commit for each transaction of ids, in the order of their
\* first appearance in s, and nothing else.
CommitsAppended(s, ids, t) ==
    /\ Len(t) = Len(s) + Cardinality(ids)
    /\ SubSeq(t, 1, Len(s)) = s
    /\ \A k \in (Len(s) + 1)..Len(t) : t[k].i \in ids /\ t[k] = commit(t[k].i)
    /\ \A k, l \in (Len(s) + 1)..Len(t) :
           k < l => FirstPosition(s, t[k].i) < FirstPosition(s, t[l].i)

\* C18 (as stated): add_commits(S) is S followed by one Commit for each
\* transaction whose last action in S is neither a Commit nor an Abort, in the
\* order of first appearance, and nothing else; for S without an Abort,
\* drop_aborts(add_commits(S)) is that same sequence.
C18_AddCommitsForUnended ==
    /\ CommitsAppended(schedule, Unended(schedule), add_commits(schedule))
    /\ (\A p \in Positions(schedule) : schedule[p].op # ABORT)
           => drop_aborts(add_commits(schedule)) = add_commits(schedule)

\* C18 (on well-formed schedules): the same, where no transaction acts after
\* its Commit or Abort.
C18_AddCommitsWellFormed ==
    WellFormed(schedule) => C18_AddCommitsForUnended

\* The transactions with an Abort somewhere in s.
Aborted(s) == {s[p].i : p \in {q \in Positions(s) : s[q].op = ABORT}}

\* The positions of s whose transaction has no Abort anywhere in s.
KeptPositions(s) == {p \in Positions(s) : s[p].i \notin Aborted(s)}

\* t is the subsequence of s at the positions of K, in the order of s.
SubsequenceAt(s, K, t) ==
    /\ Len(t) = Cardinality(K)
    /\ \A p \in K : t[Cardinality({q \in K : q <= p})] = s[p]

\* C19: drop_aborts(S) is the subsequence of S, in the original order, of
\* exactly the actions whose transaction has no Abort anywhere in S.
C19_DropAbortsSubsequence ==
    SubsequenceAt(schedule, KeptPositions(schedule), drop_aborts(schedule))

\* A transaction acts, another acts, the first acts again and then aborts: its
\* actions on both sides of the other's are removed, the other's are kept.
C19_Witness ==
    /\ \E p, q, u, v \in Positions(schedule) :
           /\ p < q /\ q < u /\ u < v
           /\ schedule[v] = abort(schedule[p].i)
           /\ schedule[u].i = schedule[p].i
           /\ schedule[q].i # schedule[p].i
           /\ q \in KeptPositions(schedule)
    /\ drop_aborts(schedule) # <<>>
    /\ Len(drop_aborts(schedule)) < Len(schedule) - 1

\* C20: conflict_serializable and view_serializable give on S what they give
\* on drop_aborts(S), which is S itself when S has no Abort; when every
\* transaction of S aborts, both are true.
C20_SerializabilityIgnoresAborted ==
    /\ Aborted(schedule) = {} => drop_aborts(schedule) = schedule
    /\ Aborted(schedule) # {} =>
           /\ verdict.cs = conflict_serializable(drop_aborts(schedule))
           /\ verdict.vs = view_serializable(drop_aborts(schedule))
    /\ IdSet(schedule) \subseteq Aborted(schedule)
           => verdict.cs = TRUE /\ Returns(verdict.vs, TRUE)

\* An aborted transaction conflicts in both directions with a surviving one:
\* the cycle goes with the aborted transaction.
C20_Witness ==
    /\ \E a \in Aborted(schedule) : \E b \in IdSet(schedule) \ Aborted(schedule) :
           ConflictEdge(schedule, a, b) /\ ConflictEdge(schedule, b, a)
    /\ verdict.cs = TRUE
    /\ Returns(verdict.vs, TRUE)

\* Every Write of s follows a Read of the same object by the same transaction.
NoBlindWrite(s) ==
    \A p \in Positions(s) :
        s[p].op = WRITE =>
            \E q \in Positions(s) : q < p /\ s[q] = r(s[p].i, s[p].obj)

\* C21: when drop_aborts(S) is not conflict-serializable and has no blind
\* write, no serial permutation of its partitions is view_equivalent to it, so
\* the False that view_serializable returns without the search is what the
\* search would return.
C21_BlindWriteShortcutExact ==
    LET D == drop_aborts(schedule)
    IN  (~conflict_serializable(D) /\ NoBlindWrite(D)) =>
            /\ ~SomeSerializationViewEquivalent(D)
            /\ view_serializable_search(permutations(transactions(D)), D) = Return(FALSE)
            /\ verdict.vs = Return(FALSE)

\* Two transactions read an object and then both write it: a cycle and no
\* blind write, with the same final writer as one of the serial schedules.
C21_Witness ==
    LET D == drop_aborts(schedule)
    IN  /\ ~conflict_serializable(D)
        /\ NoBlindWrite(D)
        /\ \E p, q \in Positions(D) :
               D[p].op = WRITE /\ D[q].op = WRITE /\ D[p].i # D[q].i
        /\ \E ser \in Serializations(D) : last_written(ser) = last_written(D)
        /\ verdict.vs = Return(FALSE)

\* In s, transaction t reads at p from another transaction that aborts at k,
\* and t commits at c.
ReadThenSourceAborts(s, p, k, c) ==
    LET u == MostRecentWriter(s, p)
    IN  /\ p < k /\ p < c
        /\ s[p].op = READ
        /\ u # 0 /\ u # s[p].i
        /\ s[k] = abort(u)
        /\ s[c] = commit(s[p].i)

\* C22: in recoverable a read-from dependency is never retracted: when t Reads
\* an object whose most recent surviving writer is another transaction u, and u
\* Aborts later, a later Commit of t, given or added by add_commits, makes
\* recoverable return false.
C22_DependencyNotRetracted ==
    LET A == add_commits(schedule)
    IN  WellFormed(schedule) =>
            ((\E p, k, c \in Positions(A) : ReadThenSourceAborts(A, p, k, c))
                 => verdict.rec = FALSE)

\* t reads u's write, u aborts, t reads the object again, now with no
\* surviving writer, and commits: not recoverable.
C22_Witness ==
    /\ WellFormed(schedule)
    /\ \E p, k, c \in Positions(schedule) :
           /\ ReadThenSourceAborts(schedule, p, k, c)
           /\ k < c
           /\ \E p2 \in Positions(schedule) :
                  /\ k < p2 /\ p2 < c
                  /\ schedule[p2] = schedule[p]
                  /\ MostRecentWriter(schedule, p2) = 0
    /\ verdict.rec = FALSE

\* The positions of the Writes to o in s whose transaction does not abort
\* after them in s.
SurvivingWrites(s, o) ==
    {q \in Positions(s) :
        /\ s[q] = w(s[q].i, o)
        /\ ~\E k \in Positions(s) : q < k /\ s[k] = abort(s[q].i)}

\* The transactions of s at the positions of K, in the order of s.
IdsAt(s, K) ==
    [n \in 1..Cardinality(K) |->
        s[CHOOSE p \in K : Cardinality({q \in K : q <= p}) = n].i]

\* Every Write to the object of s[p] by another transaction before p is
\* followed, before p, by the Abort of that transaction.
ForeignWritersAborted(s, p) ==
    \A q \in Positions(s) :
        (q < p /\ s[q].op = WRITE /\ s[q].obj = s[p].obj /\ s[q].i # s[p].i)
            => \E k \in Positions(s) : q < k /\ k < p /\ s[k] = abort(s[q].i)

\* schedule7 of the tests, on the object X.
Schedule7 == <<w(2, "X"), abort(2), r(1, "X"), commit(1)>>

\* C23: after an Abort of t no write history contains t and the other writers
\* keep their order, so the histories hold the writers that have not aborted
\* (stated of the schedule so far, every prefix being a schedule of its own);
\* a Read (in strict, a Write too) of an object whose earlier writers of other
\* transactions have all aborted is no violation of recoverable, aca, strict.
C23_AbortPurgesWriteHistory ==
    LET A == add_commits(schedule)
        n == Len(schedule)
        H == written_by_after(schedule)
    IN  /\ \A o \in Objects :
               /\ ListAt(H, o) = IdsAt(schedule, SurvivingWrites(schedule, o))
               /\ (n > 0 /\ schedule[n].op = ABORT) =>
                      \A i \in 1..Len(ListAt(H, o)) : ListAt(H, o)[i] # schedule[n].i
        /\ written_by_after(A) = H
        /\ WellFormed(schedule) =>
               /\ (\A p \in Positions(A) : A[p].op = READ => ForeignWritersAborted(A, p))
                      => verdict.rec = TRUE /\ verdict.aca = TRUE
               /\ (\A p \in Positions(A) :
                       A[p].op \in {READ, WRITE} => ForeignWritersAborted(A, p))
                      => verdict.sct = TRUE
        /\ schedule = Schedule7 =>
               verdict.rec = TRUE /\ verdict.aca = TRUE /\ verdict.sct = TRUE

\* schedule7: the only writer of X has aborted when transaction 1 reads X.
C23_Witness ==
    /\ schedule = Schedule7
    /\ written_by_after(SubSeq(schedule, 1, 1)) = [o \in {"X"} |-> <<2>>]
    /\ written_by_after(SubSeq(schedule, 1, 2)) = [o \in {"X"} |-> <<>>]
    /\ verdict.rec = TRUE /\ verdict.aca = TRUE /\ verdict.sct = TRUE

\* The blind-write test of view_serializable finds a blind write in s.
HasBlindWrite(s) ==
    \E k \in DOMAIN transactions(s) : blind_write_in(transactions(s)[k], {})

\* C24: on a well-formed schedule each of the five classifiers returns a
\* boolean and raises nothing; every serial schedule that view_serializable
\* passes to view_equivalent has the transaction ids of the abort-filtered
\* schedule, so the assertion of view_equivalent holds there.
C24_ClassifiersTotal ==
    LET D == drop_aborts(schedule)
    IN  WellFormed(schedule) =>
            /\ verdict.vs \in {Return(TRUE), Return(FALSE)}
            /\ {verdict.cs, verdict.rec, verdict.aca, verdict.sct} \subseteq BOOLEAN
            /\ \A ser \in Serializations(D) :
                   /\ IdSet(ser) = IdSet(D)
                   /\ Range(transaction_ids(ser)) = Range(transaction_ids(D))
                   /\ ~view_equivalent(ser, D).raised

\* A well-formed schedule with an aborted transaction on which
\* view_serializable runs the permutation search.
C24_Witness ==
    LET D == drop_aborts(schedule)
    IN  /\ WellFormed(schedule)
        /\ D # schedule
        /\ ~conflict_serializable(D)
        /\ HasBlindWrite(D)
        /\ Cardinality(Serializations(D)) > 1
        /\ ~verdict.vs.raised

\* The positions of the actions of transaction i in s.
PositionsOf(s, i) == {p \in Positions(s) : s[p].i = i}

\* The number of positions of s that hold the action a.
Occurrences(s, a) == Cardinality({p \in Positions(s) : s[p] = a})

\* C25: transactions(S) has one list per transaction id, in the order of the
\* first appearance of the ids; each list holds the actions of its id in their
\* order in S; the lists together are a permutation of S.
C25_TransactionsPartition ==
    LET T == transactions(schedule)
        F == flatten(T)
    IN  /\ Len(T) = Cardinality(IdSet(schedule))
        /\ \A k \in 1..Len(T) :
               /\ T[k] # <<>>
               /\ SubsequenceAt(schedule, PositionsOf(schedule, T[k][1].i), T[k])
        /\ \A j, k \in 1..Len(T) :
               j < k => FirstPosition(schedule, T[j][1].i) < FirstPosition(schedule, T[k][1].i)
        /\ Len(F) = Len(schedule)
        /\ \A p \in Positions(schedule) :
               Occurrences(F, schedule[p]) = Occurrences(schedule, schedule[p])

\* The transaction that appears first has the larger id and repeats an action
\* around an action of the other.
C25_Witness ==
    LET T == transactions(schedule)
    IN  /\ Len(T) >= 2
        /\ T[1][1].i > T[2][1].i
        /\ \E p, q, u \in Positions(schedule) :
               /\ p < q /\ q < u
               /\ schedule[p] = schedule[u]
               /\ schedule[q].i # schedule[p].i
        /\ flatten(T) # schedule

\* The latest Write to the object of s[p] before p; 0 when there is none.
LatestWriteBefore(s, p) ==
    LET qs == {q \in Positions(s) : q < p /\ s[q].op = WRITE /\ s[q].obj = s[p].obj}
    IN  IF qs = {} THEN 0 ELSE CHOOSE q \in qs : \A q2 \in qs : q2 <= q

\* C26: view_graph(S) has the edge from a numbered Read to a numbered Write
\* iff that Write is the latest Write to the Read's object before it, own
\* writes included; the numbers are the zero-based positions within the
\* transaction; a Read with no earlier Write to its object has no edge; equal
\* actions of one transaction differ by their number. ReadsFrom(S) is the set
\* of those pairs, numbered by position within the transaction.
C26_ViewGraphEdges ==
    LET G == view_graph(schedule)
        N == number(schedule)
    IN  /\ Len(N) = Len(schedule)
        /\ \A p \in Positions(schedule) : N[p] = Numbered(schedule, p)
        /\ \A p, q \in Positions(schedule) : p # q => N[p] # N[q]
        /\ G.edges = ReadsFrom(schedule)
        /\ G.nodes = {e[1] : e \in G.edges} \cup {e[2] : e \in G.edges}

\* A transaction reads an object twice: the first Read before every Write, the
\* second after two Writes, the latest its own.
C26_Witness ==
    LET G == view_graph(schedule)
        N == number(schedule)
    IN  \E p, q, u \in Positions(schedule) :
            /\ p < q /\ q < u
            /\ schedule[p].op = READ
            /\ schedule[u] = schedule[p]
            /\ LatestWriteBefore(schedule, p) = 0
            /\ LatestWriteBefore(schedule, u) = q
            /\ schedule[q].i = schedule[u].i
            /\ \E q1 \in Positions(schedule) :
                   q1 < q /\ schedule[q1].op = WRITE /\ schedule[q1].obj = schedule[q].obj
            /\ <<N[u], N[q]>> \in G.edges
            /\ ~\E e \in G.edges : e[1] = N[p]

\* C27: view_equivalent is symmetric: on two schedules over the same
\* transaction ids, view_equivalent(S1, S2) = view_equivalent(S2, S1).
C27_ViewEquivalentSymmetric ==
    IdSet(schedule) = IdSet(other) =>
        /\ ~equivalent.raised
        /\ view_equivalent(other, schedule) = equivalent

\* Two different schedules over the same transactions that agree on the reads
\* and differ in the objects written: false in both orders.
C27_Witness ==
    /\ IdSet(schedule) = IdSet(other)
    /\ schedule # other
    /\ first_read(schedule) = first_read(other)
    /\ first_read(schedule) # EmptyDict
    /\ DOMAIN last_written(schedule) # DOMAIN last_written(other)
    /\ equivalent = Return(FALSE)
    /\ view_equivalent(other, schedule) = Return(FALSE)

====
